---- MODULE Spec2Model ----
(***************************************************************************)
(* A model of the tars invocation pipeline: the four LLM providers'       *)
(* Invoke methods (llm package), template/message validation, the HTTP    *)
(* transport wrapper (httpx) and the retry policy the providers run the   *)
(* request under.                                                         *)
(*                                                                        *)
(* One provider instance is constructed (Init) and then serves Invoke     *)
(* calls one after another.  An Invoke call blocks on network I/O, so it  *)
(* is split where the environment can act: the part up to the first       *)
(* request being on the wire (XInvoke), and the part that runs when the   *)
(* attempt in flight comes back (TransportFails, TransportResponds).      *)
(* The caller's context can be canceled while the call is running.        *)
(***************************************************************************)
EXTENDS Integers, Sequences, FiniteSets, TLC

(***************************************************************************)
(* Bounds of the model.                                                   *)
(***************************************************************************)
MaxAttemptsBound == 2   \* largest maxAttempts a provider is built with
MaxTmplLen == 2         \* longest template passed to Invoke
MaxChoices == 2         \* most choices in a provider response

(***************************************************************************)
(* message package: roles, messages, usage.                               *)
(***************************************************************************)
RoleSystem == "system"
RoleUser == "user"
RoleAssistant == "assistant"

ZeroUsage == [PromptTokens |-> 0, CompletionTokens |-> 0, TotalTokens |-> 0]

\* message.WithUsage(p, c, t): the option sets the three counters as given.
WithUsage(promptTokens, completionTokens, totalTokens) ==
    [PromptTokens |-> promptTokens,
     CompletionTokens |-> completionTokens,
     TotalTokens |-> totalTokens]

FromSystem(content) == [Role |-> RoleSystem, Content |-> content, Usage |-> ZeroUsage]

FromUser(content) == [Role |-> RoleUser, Content |-> content, Usage |-> ZeroUsage]

\* FromAssistant(content, options...): usage is what the options left in opts.usage.
FromAssistant(content, usage) ==
    [Role |-> RoleAssistant, Content |-> content, Usage |-> usage]

(***************************************************************************)
(* Variable substitution.  A variable mapping is Go's map[string]any: nil *)
(* or a function from keys to values; a value is a string or an int.      *)
(***************************************************************************)
NilVars == [isNil |-> TRUE, entries |-> <<>>]

\* len(v): 0 for a nil map.
MapLen(v) == IF v.isNil THEN 0 ELSE Cardinality(DOMAIN v.entries)

\* fmt.Sprintf("{{%s}}", k)
Placeholder(k) == "{{" \o k \o "}}"

\* fmt.Sprintf("%v", val)
FormatValue(val) == IF val.kind = "int" THEN ToString(val.n) ELSE val.s

RECURSIVE ReplaceAll(_, _, _)
\* strings.ReplaceAll(s, old, new) for a non-empty old: the non-overlapping
\* occurrences of old, found from the left, each replaced by new.
ReplaceAll(s, old, new) ==
    IF Len(s) < Len(old) THEN s
    ELSE IF SubSeq(s, 1, Len(old)) = old
         THEN new \o ReplaceAll(SubSeq(s, Len(old) + 1, Len(s)), old, new)
    ELSE SubSeq(s, 1, 1) \o ReplaceAll(SubSeq(s, 2, Len(s)), old, new)

RECURSIVE SubstituteInOrder(_, _, _)
\* for k, val := range v { content = strings.ReplaceAll(content, placeholder, ...) }
\* with the keys coming in the order the map iteration yields them.
SubstituteInOrder(content, entries, order) ==
    IF order = <<>> THEN content
    ELSE SubstituteInOrder(
             ReplaceAll(content, Placeholder(Head(order)), FormatValue(entries[Head(order)])),
             entries, Tail(order))

\* The orders a range over the map can yield: Go leaves the order unspecified.
Orders(v) ==
    LET K == DOMAIN v.entries
    IN {o \in [1..Cardinality(K) -> K] : \A i, j \in 1..Cardinality(K) : o[i] = o[j] => i = j}

\* The nil Message (and the nil message.Message of an Invoke that failed).
NilMessage == [type |-> "nil"]

\* The first-generation Invoke: the returned message has no usage.
MessageInvokeDroppingUsage(m, v, order) ==
    [Role |-> m.Role,
     Content |-> SubstituteInOrder(m.Content, v.entries, order),
     Usage |-> [PromptTokens |-> 0, CompletionTokens |-> 0, TotalTokens |-> 0]]

\* An Invoke declared on the pointer that substitutes in place: its m is the
\* caller's message, m.Content is assigned and m is returned.
MessageInvokeInPlace(store, v, order) ==
    IF MapLen(v) = 0 THEN [store |-> store, ret |-> store.caller]
    ELSE LET written == [store EXCEPT !.caller.Content =
                            SubstituteInOrder(store.caller.Content, v.entries, order)]
         IN [store |-> written, ret |-> written.caller]

\* message.Invoke(v), statement by statement, on the variables it can name.
\* store.caller is the caller's message.  The method has a value receiver,
\* so its m is a variable of the frame that starts as a copy of the caller's
\* message; content is a local that the loop assigns; the result is a new
\* message value built from m and content.
MessageInvokeOnStore(store, v, order) ==
    LET entered == [caller |-> store.caller, m |-> store.caller]
        declared == [caller |-> entered.caller, m |-> entered.m,
                     content |-> entered.m.Content]
        looped == [declared EXCEPT
                      !.content = SubstituteInOrder(declared.content, v.entries, order)]
    IN IF MapLen(v) = 0 THEN [store |-> entered, ret |-> entered.m]
       ELSE [store |-> looped,
             ret |-> [Role |-> looped.m.Role, Content |-> looped.content,
                      Usage |-> looped.m.Usage]]

\* message.Invoke(v): what the call returns.
MessageInvoke(m, v, order) == MessageInvokeOnStore([caller |-> m], v, order).ret

(***************************************************************************)
(* Templates and the slices they hold.  A template value is a struct with *)
(* one field, the slice header Message; heap maps each backing array to   *)
(* the messages in it, and a slice is named by its backing array.         *)
(***************************************************************************)
\* From(messages...): the template holds the slice it was handed.
From(slice) == [Message |-> slice]

\* t.GetMessage(): the slice the template holds.
GetMessage(t) == t.Message

\* make([]message.Message, n): a new backing array of n nil messages.
Make(heap, n) == Append(heap, [i \in 1..n |-> NilMessage])

\* slice[i] = m
WriteSlice(heap, slice, i, m) == [heap EXCEPT ![slice][i] = m]

RECURSIVE RangeInvoke(_, _, _, _, _, _)
\* for i, m := range t.Message { messages[i] = m.Invoke(v) }, from index i
\* on: each message ranges over the map on its own.
RangeInvoke(heap, messages, source, v, orders, i) ==
    IF i > Len(heap[source]) THEN heap
    ELSE RangeInvoke(WriteSlice(heap, messages, i,
                                MessageInvoke(heap[source][i], v, orders[i])),
                     messages, source, v, orders, i + 1)

\* t.Invoke(v) on the heap: t itself for an empty mapping; otherwise a slice
\* is made, filled with the substituted messages and returned in a new
\* template.
TemplateInvokeOnHeap(heap, t, v, orders) ==
    IF MapLen(v) = 0
    THEN [heap |-> heap, ret |-> t]
    ELSE LET made == Make(heap, Len(heap[t.Message]))
             messages == Len(made)
         IN [heap |-> RangeInvoke(made, messages, t.Message, v, orders, 1),
             ret |-> [Message |-> messages]]

\* template.Invoke(v): the messages of the template the call returns, for a
\* template over the messages t.
TemplateInvoke(t, v, orders) ==
    LET invoked == TemplateInvokeOnHeap(<<t>>, From(1), v, orders)
    IN invoked.heap[GetMessage(invoked.ret)]

(***************************************************************************)
(* errorbank package.  An error is a record; NilError is Go's nil error.  *)
(***************************************************************************)
NilError == [type |-> "nil"]

NewMessageError(operation, message, cause) ==
    [type |-> "MessageError", Operation |-> operation, Message |-> message, Cause |-> cause]

NewTemplateError(variable, message, cause) ==
    [type |-> "TemplateError", Variable |-> variable, Message |-> message, Cause |-> cause]

NewValidationError(field, message) ==
    [type |-> "ValidationError", Field |-> field, Message |-> message]

IsMessageError(err) == err.type = "MessageError"

IsValidationError(err) == err.type = "ValidationError"

\* github.com/pkg/errors Wrap / New as the first-generation provider uses them.
ErrorsWrap(cause, message) == [type |-> "errors.withStack", Message |-> message, Cause |-> cause]

ErrorsNew(message) == [type |-> "errors.fundamental", Message |-> message]

(***************************************************************************)
(* Validation of messages and templates.                                  *)
(***************************************************************************)
\* A Validate that does not look at the content.
ValidateRoleOnly(m) ==
    IF m.Role = "" THEN NewValidationError("role", "cannot be empty")
    ELSE IF m.Role \notin {RoleSystem, RoleUser, RoleAssistant}
         THEN NewValidationError("role", "invalid role type")
    ELSE NilError

\* A Validate that checks the role in full before the content.
ValidateRoleFirst(m) ==
    IF m.Role = "" THEN NewValidationError("role", "cannot be empty")
    ELSE IF m.Role \notin {RoleSystem, RoleUser, RoleAssistant}
         THEN NewValidationError("role", "invalid role type")
    ELSE IF m.Content = "" THEN NewValidationError("content", "cannot be empty")
    ELSE NilError

\* message.Validate: empty role, then empty content, then role membership.
Validate(m) ==
    IF m.Role = "" THEN NewValidationError("role", "cannot be empty")
    ELSE IF m.Content = "" THEN NewValidationError("content", "cannot be empty")
    ELSE IF m.Role \notin {RoleSystem, RoleUser, RoleAssistant}
         THEN NewValidationError("role", "invalid role type")
    ELSE NilError

\* The largest index whose message fails Validate (0 when there is none).
LastInvalid(t) ==
    LET bad == {i \in 1..Len(t) : Validate(t[i]) # NilError}
    IN IF bad = {} THEN 0 ELSE CHOOSE i \in bad : \A j \in bad : i >= j

\* The smallest index whose message fails Validate (0 when there is none):
\* the range loop of template.Validate returns at the first failure.
FirstInvalid(t) ==
    LET bad == {i \in 1..Len(t) : Validate(t[i]) # NilError}
    IN IF bad = {} THEN 0 ELSE CHOOSE i \in bad : \A j \in bad : i <= j

\* fmt.Sprintf("message[%d]", i), i the 0-based index of the range loop.
MessageRef(i) == "message[" \o ToString(i) \o "]"

\* template.Validate
TemplateValidate(t) ==
    IF Len(t) = 0 THEN NewValidationError("messages", "template cannot be empty")
    ELSE IF FirstInvalid(t) # 0
         THEN NewTemplateError(MessageRef(FirstInvalid(t) - 1), "validation failed",
                               Validate(t[FirstInvalid(t)]))
    ELSE NilError

(***************************************************************************)
(* llm package: provider options, invoke options, wire types.             *)
(***************************************************************************)
ProviderOpenAI == "openai"
ProviderAnthropic == "anthropic"
ProviderOpenRouter == "openrouter"
ProviderOllama == "ollama"

GetSupportedProviders ==
    <<ProviderOpenAI, ProviderAnthropic, ProviderOpenRouter, ProviderOllama>>

ProviderTypes == {GetSupportedProviders[i] : i \in 1..Len(GetSupportedProviders)}

\* The structured-output target the caller passes by reference: a struct
\* {Temperature float64 `json:"temperature"`; Condition string `json:"condition"`}.
ZeroWeatherInfo == [Temperature |-> "0", Condition |-> ""]

NilSchema == [type |-> "nil"]

\* jsonschema.Reflect of the target, reduced to the definition the $ref names.
WeatherInfoSchema ==
    [type |-> "object",
     properties |-> [temperature |-> "number", condition |-> "string"],
     required |-> {"temperature", "condition"}]

\* jsonschema.Reflect(target): the $ref of the target's type and the definition
\* it names, as definition.MarshalJSON() renders it.  WeatherInfo is a struct,
\* whose definition is a JSON object; AnyValue is a type that supplies its own
\* schema, the boolean schema true, which is valid JSON Schema but no object.
Reflect(targetType) ==
    IF targetType = "WeatherInfo"
    THEN [Ref |-> "#/$defs/WeatherInfo",
          Definition |-> [json |-> "object", value |-> WeatherInfoSchema]]
    ELSE [Ref |-> "#/$defs/AnyValue",
          Definition |-> [json |-> "true", value |-> NilSchema]]

\* var jsonSchema map[string]any; _ = json.Unmarshal(schemaDefinition, &jsonSchema):
\* JSON that is no object leaves the map nil, and the error is discarded.
UnmarshalSchema(definition) ==
    IF definition.json = "object" THEN definition.value ELSE NilSchema

\* WithStructuredOutput(target): keeps the reference and derives the schema.
WithStructuredOutput(o, targetType) ==
    [o EXCEPT !.structuredOutput = targetType,
              !.jsonSchema = UnmarshalSchema(Reflect(targetType).Definition)]

\* The options a caller may pass to Invoke, as a list applied in order.
InvokeOptionLists ==
    {<<>>, <<"WithStructuredOutput(&WeatherInfo{})">>, <<"WithStructuredOutput(&AnyValue{})">>}

\* WithModel(model)
WithModel(o, model) == [o EXCEPT !.model = model]

\* WithTemperature(temperature)
WithTemperature(o, temperature) == [o EXCEPT !.temperature = temperature]

\* WithMaxTokens(maxTokens)
WithMaxTokens(o, maxTokens) == [o EXCEPT !.maxTokens = maxTokens]

\* The per-call settings a caller may pass.
SettingOptions ==
    {"WithModel(\"gpt-4o\")", "WithModel(\"o3\")", "WithTemperature(0.2)",
     "WithTemperature(1.5)", "WithMaxTokens(50)"}

ApplyOption(o, name) ==
    IF name = "WithStructuredOutput(&WeatherInfo{})" THEN WithStructuredOutput(o, "WeatherInfo")
    ELSE IF name = "WithStructuredOutput(&AnyValue{})" THEN WithStructuredOutput(o, "AnyValue")
    ELSE IF name = "WithModel(\"gpt-4o\")" THEN WithModel(o, "gpt-4o")
    ELSE IF name = "WithModel(\"o3\")" THEN WithModel(o, "o3")
    ELSE IF name = "WithTemperature(0.2)" THEN WithTemperature(o, "0.2")
    ELSE IF name = "WithTemperature(1.5)" THEN WithTemperature(o, "1.5")
    ELSE IF name = "WithMaxTokens(50)" THEN WithMaxTokens(o, 50)
    ELSE o

RECURSIVE ApplyOptions(_, _)
\* for _, option := range options { option(&opts) }
ApplyOptions(o, names) ==
    IF names = <<>> THEN o
    ELSE ApplyOptions(ApplyOption(o, Head(names)), Tail(names))

DefaultInvokeOptions(model) ==
    [model |-> model, temperature |-> "0.7", maxTokens |-> 1000,
     structuredOutput |-> "nil", jsonSchema |-> NilSchema]

NilResponseFormat == [Type |-> "nil"]

\* The ResponseFormat closure of the OpenRouter and Ollama requests.
ResponseFormat(opts) ==
    IF opts.jsonSchema # NilSchema
    THEN [Type |-> "json_schema",
          JsonSchema |-> [Name |-> "schema", Strict |-> TRUE, Schema |-> opts.jsonSchema]]
    ELSE NilResponseFormat

\* The Messages closure filling the slice from its end.
WireMessagesReversed(template) ==
    [i \in 1..Len(template) |->
        [Role |-> template[Len(template) + 1 - i].Role,
         Content |-> template[Len(template) + 1 - i].Content]]

\* The Messages closure: msgs[i] = Message{Role: msg.GetRole(), Content: msg.GetContent()}.
WireMessages(template) ==
    [i \in 1..Len(template) |->
        [Role |-> template[i].Role, Content |-> template[i].Content]]

\* What goes on the wire: client.Post(path, ChatCompletionsRequest{...}) with
\* the client's default headers.
ChatCompletionsRequest(path, authorization, model, messages, responseFormat) ==
    [Path |-> path, Authorization |-> authorization, Model |-> model,
     Messages |-> messages, ResponseFormat |-> responseFormat]

\* httpx.NewHeader().Bearer(token)
Bearer(token) == [scheme |-> "Bearer", token |-> token]

NoAuthorization == [scheme |-> "none", token |-> ""]

(***************************************************************************)
(* Responses of the provider's HTTP endpoint.                             *)
(***************************************************************************)
ContentWeather == "{\"temperature\":21.5,\"condition\":\"clear\"}"
ContentProse == "It is sunny."
ContentMistyped == "{\"temperature\":\"hot\",\"condition\":\"rain\"}"

Contents == {ContentWeather, ContentProse, ContentMistyped}

RECURSIVE SeqsUpTo(_, _)
SeqsUpTo(S, n) ==
    IF n = 0 THEN {<<>>}
    ELSE SeqsUpTo(S, n - 1) \cup
         {Append(s, x) : s \in {q \in SeqsUpTo(S, n - 1) : Len(q) = n - 1}, x \in S}

Usages == {WithUsage(10, 5, 15), ZeroUsage}

StatusCodes == {200, 500}

\* A response body: empty, bytes that are no JSON, or a JSON object with a
\* choices array and a usage object.
Bodies ==
    {[kind |-> "empty", choices |-> <<>>, usage |-> ZeroUsage],
     [kind |-> "garbage", choices |-> <<>>, usage |-> ZeroUsage]}
    \cup {[kind |-> "json", choices |-> c, usage |-> u] :
             c \in SeqsUpTo(Contents, MaxChoices), u \in Usages}

Responses == {[status |-> s, body |-> b] : s \in StatusCodes, b \in Bodies}

NoResponse == [status |-> 0, body |-> [kind |-> "none"]]

\* httpx Response.IsSuccess
IsSuccess(r) == r.status >= 200 /\ r.status < 300

ErrEmptyBody == [type |-> "error", Message |-> "response body is empty"]

ErrJSONSyntax == [type |-> "json.SyntaxError"]

ErrJSONType == [type |-> "json.UnmarshalTypeError"]

\* httpx Response.Decode into a ChatCompletionsResponse: the error, and the
\* decoded value (zero value where nothing was decoded).
Decode(r) ==
    IF r.body.kind = "empty" THEN [err |-> ErrEmptyBody, Choices |-> <<>>, Usage |-> ZeroUsage]
    ELSE IF r.body.kind = "garbage"
         THEN [err |-> ErrJSONSyntax, Choices |-> <<>>, Usage |-> ZeroUsage]
    ELSE [err |-> NilError, Choices |-> r.body.choices, Usage |-> r.body.usage]

\* json.Unmarshal([]byte(content), target) for the WeatherInfo target.
\* Invalid JSON leaves the target untouched; a value of the wrong JSON type
\* skips that field, decodes the rest and reports the type error.
JsonUnmarshal(content, target) ==
    IF content = ContentWeather
    THEN [err |-> NilError, target |-> [Temperature |-> "21.5", Condition |-> "clear"]]
    ELSE IF content = ContentMistyped
    THEN [err |-> ErrJSONType, target |-> [target EXCEPT !.Condition = "rain"]]
    ELSE [err |-> ErrJSONSyntax, target |-> target]

(***************************************************************************)
(* The retry policy (github.com/bpradana/failsafe): a fixed number of     *)
(* attempts, run one after another in the caller's goroutine, the         *)
(* context consulted before each attempt.                                 *)
(***************************************************************************)
NilRetrier == [kind |-> "nil"]

\* failsafe.NewRetrier(failsafe.WithMaxAttempts(n), fixed delay)
NewRetrier(maxAttempts) == [kind |-> "retrier", maxAttempts |-> maxAttempts]

ErrContextCanceled == [type |-> "context.Canceled"]

\* The error of a retrier that has no attempt to make.
ErrMaxAttempts == [type |-> "error", Message |-> "max attempts reached"]

\* Before an attempt that follows the delay: a context that is done ends the
\* call.
RetryBeforeAttempt(ctxDone) == IF ctxDone THEN "canceled" ELSE "attempt"

\* Before the first attempt: a context that is already done ends the call,
\* and so does a budget that allows no attempt (maxAttempts below 1).
RetryFirstAttempt(retrier, ctxDone) ==
    IF ctxDone THEN "canceled"
    ELSE IF retrier.maxAttempts < 1 THEN "exhausted"
    ELSE "attempt"

\* After fn returned an error on attempt number attemptsMade.
RetryAfterFailure(retrier, attemptsMade, ctxDone) ==
    IF attemptsMade >= retrier.maxAttempts THEN "exhausted"
    ELSE IF ctxDone THEN "canceled"
    ELSE "attempt"

(***************************************************************************)
(* Provider construction.                                                 *)
(***************************************************************************)
\* llmOptions after the caller's WithAPIKey / WithMaxAttempts were applied
\* to the constructor's defaults.  WithMaxAttempts stores any int it is
\* given.  Where the caller does not pass it, maxAttempts is the default: 1
\* in NewAnthropic, NewOpenRouter and NewOllama, and 0 in NewOpenAI, which
\* sets none.
LLMOptions(baseURL, apiKey, maxAttempts) ==
    [baseURL |-> baseURL, apiKey |-> apiKey, maxAttempts |-> maxAttempts]

\* NewOpenAI: options and an HTTP client with the bearer header; no retrier.
NewOpenAI(apiKey, maxAttempts) ==
    [name |-> ProviderOpenAI,
     options |-> LLMOptions("https://api.openai.com/v1", apiKey, maxAttempts),
     client |-> [baseURL |-> "https://api.openai.com/v1", headers |-> Bearer(apiKey)],
     retrier |-> NilRetrier]

NewAnthropic(apiKey, maxAttempts) ==
    [name |-> ProviderAnthropic,
     options |-> LLMOptions("https://api.anthropic.com", apiKey, maxAttempts),
     client |-> [baseURL |-> "https://api.anthropic.com", headers |-> Bearer(apiKey)],
     retrier |-> NewRetrier(maxAttempts)]

NewOpenRouter(apiKey, maxAttempts) ==
    [name |-> ProviderOpenRouter,
     options |-> LLMOptions("https://openrouter.ai/api/v1", apiKey, maxAttempts),
     client |-> [baseURL |-> "https://openrouter.ai/api/v1", headers |-> Bearer(apiKey)],
     retrier |-> NewRetrier(maxAttempts)]

\* NewOllama: the client carries no Authorization header.
NewOllama(apiKey, maxAttempts) ==
    [name |-> ProviderOllama,
     options |-> LLMOptions("http://localhost:11434", apiKey, maxAttempts),
     client |-> [baseURL |-> "http://localhost:11434", headers |-> NoAuthorization],
     retrier |-> NewRetrier(maxAttempts)]

NilProvider == [name |-> "nil"]

\* fmt.Errorf("unsupported provider type: %s", providerType)
ErrUnsupportedProvider(providerType) ==
    [type |-> "error", Message |-> "unsupported provider type: " \o providerType]

\* A factory whose switch has no case for the local-server provider.
NewProviderWithoutOllama(providerType, apiKey, maxAttempts) ==
    CASE providerType = ProviderOpenAI ->
            [provider |-> NewOpenAI(apiKey, maxAttempts), err |-> NilError]
      [] providerType = ProviderAnthropic ->
            [provider |-> NewAnthropic(apiKey, maxAttempts), err |-> NilError]
      [] providerType = ProviderOpenRouter ->
            [provider |-> NewOpenRouter(apiKey, maxAttempts), err |-> NilError]
      [] OTHER -> [provider |-> NilProvider, err |-> ErrUnsupportedProvider(providerType)]

\* The factory: the constructor the type tag selects and a nil error, or a
\* nil provider and an error for any other tag.
NewProvider(providerType, apiKey, maxAttempts) ==
    CASE providerType = ProviderOpenAI ->
            [provider |-> NewOpenAI(apiKey, maxAttempts), err |-> NilError]
      [] providerType = ProviderAnthropic ->
            [provider |-> NewAnthropic(apiKey, maxAttempts), err |-> NilError]
      [] providerType = ProviderOpenRouter ->
            [provider |-> NewOpenRouter(apiKey, maxAttempts), err |-> NilError]
      [] providerType = ProviderOllama ->
            [provider |-> NewOllama(apiKey, maxAttempts), err |-> NilError]
      [] OTHER -> [provider |-> NilProvider, err |-> ErrUnsupportedProvider(providerType)]

\* GetName of each provider type: the string literal the method returns.
OpenAIGetName == "openai"
AnthropicGetName == "anthropic"
OpenRouterGetName == "openrouter"
OllamaGetName == "ollama"

\* p.GetName() through the BaseProvider interface.
GetName(p) ==
    CASE p.name = ProviderOpenAI -> OpenAIGetName
      [] p.name = ProviderAnthropic -> AnthropicGetName
      [] p.name = ProviderOpenRouter -> OpenRouterGetName
      [] p.name = ProviderOllama -> OllamaGetName

APIKeys == {"", "sk-key"}

\* The values maxAttempts is left with: a negative number and 0 (also
\* NewOpenAI's value when the option is not given), 1 (the other
\* constructors' default) and more.
MaxAttemptsSettings == (-1)..MaxAttemptsBound

\* b.GetOptions()
GetOptions(p) == p.options

\* b.SetOptions(options): the options field is assigned; the client and the
\* retrier built by the constructor stay as they are.
SetOptions(p, options) == [p EXCEPT !.options = options]

(***************************************************************************)
(* Invoke, up to the first request.  Each XOptions is the merged invoke   *)
(* options, each XPreflight the error Invoke returns before any network   *)
(* call (NilError when there is none), each XRequest the request the      *)
(* closure handed to the retrier builds and posts on every attempt.       *)
(***************************************************************************)
NoRequest == [Path |-> "none"]

OpenAIOptions(options) == ApplyOptions(DefaultInvokeOptions("gpt-4o-mini"), options)

AnthropicOptions(options) ==
    ApplyOptions(DefaultInvokeOptions("claude-3-5-sonnet-20240620"), options)

OpenRouterOptions(options) == ApplyOptions(DefaultInvokeOptions("gpt-4o-mini"), options)

OllamaOptions(options) == ApplyOptions(DefaultInvokeOptions("llama3.1:8b"), options)

\* OpenAIProvider.Invoke checks nothing before it posts.
OpenAIPreflight(p, template) == NilError

\* AnthropicProvider.Invoke: template validation, then the API key.
AnthropicPreflight(p, template) ==
    IF TemplateValidate(template) # NilError
    THEN NewMessageError("template_validation", "invalid template provided",
                         TemplateValidate(template))
    ELSE IF p.options.apiKey = ""
    THEN NewValidationError("api_key", "Anthropic API key is required")
    ELSE NilError

\* OpenRouterProvider.Invoke: template validation, then the API key.
OpenRouterPreflight(p, template) ==
    IF TemplateValidate(template) # NilError
    THEN NewMessageError("template_validation", "invalid template provided",
                         TemplateValidate(template))
    ELSE IF p.options.apiKey = ""
    THEN NewValidationError("api_key", "OpenRouter API key is required")
    ELSE NilError

\* OllamaProvider.Invoke: template validation; no API key is asked for.
OllamaPreflight(p, template) ==
    IF TemplateValidate(template) # NilError
    THEN NewMessageError("template_validation", "invalid template provided",
                         TemplateValidate(template))
    ELSE NilError

\* The OpenAI and Anthropic requests carry no response format.
OpenAIRequest(p, template, opts) ==
    ChatCompletionsRequest("/chat/completions", p.client.headers, opts.model,
                           WireMessages(template), NilResponseFormat)

AnthropicRequest(p, template, opts) ==
    ChatCompletionsRequest("/chat/completions", p.client.headers, opts.model,
                           WireMessages(template), NilResponseFormat)

OpenRouterRequest(p, template, opts) ==
    ChatCompletionsRequest("/chat/completions", p.client.headers, opts.model,
                           WireMessages(template), ResponseFormat(opts))

OllamaRequest(p, template, opts) ==
    ChatCompletionsRequest("/chat", p.client.headers, opts.model,
                           WireMessages(template), ResponseFormat(opts))

(***************************************************************************)
(* Invoke, once the HTTP exchange is over.                                *)
(***************************************************************************)
Outcome(message, err, target) == [message |-> message, err |-> err, target |-> target]

ErrTransport == [type |-> "error", Message |-> "failed to execute request"]

\* What each Invoke makes of the error of the exchange.
OpenAIHTTPError(err) == ErrorsWrap(err, "failed to create request")

AnthropicHTTPError(err) == NewMessageError("http_request", "failed to create request", err)

OpenRouterHTTPError(err) == NewMessageError("http_request", "failed to create request", err)

OllamaHTTPError(err) == NewMessageError("http_request", "failed to create request", err)

\* An assistant message built from the last choice instead of the first.
AssistantMessageLastChoice(result) ==
    FromAssistant(result.Choices[Len(result.Choices)],
                  WithUsage(result.Usage.PromptTokens, result.Usage.CompletionTokens,
                            result.Usage.TotalTokens))

\* The assistant message every Invoke ends with.
AssistantMessage(result) ==
    FromAssistant(result.Choices[1],
                  WithUsage(result.Usage.PromptTokens, result.Usage.CompletionTokens,
                            result.Usage.TotalTokens))

\* OpenAIProvider.Invoke after Post: decode, choices, message.
OpenAIResult(resp, opts, target) ==
    LET result == Decode(resp)
    IN IF result.err # NilError
       THEN Outcome(NilMessage, ErrorsWrap(result.err, "failed to decode response"), target)
       ELSE IF Len(result.Choices) = 0
       THEN Outcome(NilMessage, ErrorsNew("no choices in response"), target)
       ELSE Outcome(AssistantMessage(result), NilError, target)

\* AnthropicProvider.Invoke after RetryWithResult: decode, choices, message.
AnthropicResult(resp, opts, target) ==
    LET result == Decode(resp)
    IN IF result.err # NilError
       THEN Outcome(NilMessage,
                    NewMessageError("response_decode", "failed to decode response",
                                    result.err), target)
       ELSE IF Len(result.Choices) = 0
       THEN Outcome(NilMessage,
                    NewMessageError("no_choices", "no choices in response", NilError), target)
       ELSE Outcome(AssistantMessage(result), NilError, target)

\* An Invoke that hands back the assistant message together with the
\* structured-output error.
OpenRouterResultKeepingMessage(resp, opts, target) ==
    LET result == Decode(resp)
        parsed == JsonUnmarshal(result.Choices[1], target)
    IN IF result.err # NilError
       THEN Outcome(NilMessage,
                    NewMessageError("response_decode", "failed to decode response",
                                    result.err), target)
       ELSE IF Len(result.Choices) = 0
       THEN Outcome(NilMessage,
                    NewMessageError("no_choices", "no choices in response", NilError), target)
       ELSE IF opts.jsonSchema # NilSchema /\ parsed.err # NilError
       THEN Outcome(AssistantMessage(result),
                    NewMessageError("json_unmarshal",
                                    "failed to unmarshal structured output", parsed.err),
                    parsed.target)
       ELSE Outcome(AssistantMessage(result), NilError,
                    IF opts.jsonSchema # NilSchema THEN parsed.target ELSE target)

\* OpenRouterProvider.Invoke after RetryWithResult: decode, choices,
\* structured output, message.
OpenRouterResult(resp, opts, target) ==
    LET result == Decode(resp)
        parsed == JsonUnmarshal(result.Choices[1], target)
    IN IF result.err # NilError
       THEN Outcome(NilMessage,
                    NewMessageError("response_decode", "failed to decode response",
                                    result.err), target)
       ELSE IF Len(result.Choices) = 0
       THEN Outcome(NilMessage,
                    NewMessageError("no_choices", "no choices in response", NilError), target)
       ELSE IF opts.jsonSchema # NilSchema /\ parsed.err # NilError
       THEN Outcome(NilMessage,
                    NewMessageError("json_unmarshal",
                                    "failed to unmarshal structured output", parsed.err),
                    parsed.target)
       ELSE Outcome(AssistantMessage(result), NilError,
                    IF opts.jsonSchema # NilSchema THEN parsed.target ELSE target)

\* OllamaProvider.Invoke after RetryWithResult: the same stages.
OllamaResult(resp, opts, target) ==
    LET result == Decode(resp)
        parsed == JsonUnmarshal(result.Choices[1], target)
    IN IF result.err # NilError
       THEN Outcome(NilMessage,
                    NewMessageError("response_decode", "failed to decode response",
                                    result.err), target)
       ELSE IF Len(result.Choices) = 0
       THEN Outcome(NilMessage,
                    NewMessageError("no_choices", "no choices in response", NilError), target)
       ELSE IF opts.jsonSchema # NilSchema /\ parsed.err # NilError
       THEN Outcome(NilMessage,
                    NewMessageError("json_unmarshal",
                                    "failed to unmarshal structured output", parsed.err),
                    parsed.target)
       ELSE Outcome(AssistantMessage(result), NilError,
                    IF opts.jsonSchema # NilSchema THEN parsed.target ELSE target)

\* BaseProvider dispatch: the method of the provider's dynamic type.
HTTPError(p, err) ==
    CASE p.name = ProviderOpenAI -> OpenAIHTTPError(err)
      [] p.name = ProviderAnthropic -> AnthropicHTTPError(err)
      [] p.name = ProviderOpenRouter -> OpenRouterHTTPError(err)
      [] p.name = ProviderOllama -> OllamaHTTPError(err)

Result(p, resp, opts, target) ==
    CASE p.name = ProviderOpenAI -> OpenAIResult(resp, opts, target)
      [] p.name = ProviderAnthropic -> AnthropicResult(resp, opts, target)
      [] p.name = ProviderOpenRouter -> OpenRouterResult(resp, opts, target)
      [] p.name = ProviderOllama -> OllamaResult(resp, opts, target)

Request(p, template, opts) ==
    CASE p.name = ProviderOpenAI -> OpenAIRequest(p, template, opts)
      [] p.name = ProviderAnthropic -> AnthropicRequest(p, template, opts)
      [] p.name = ProviderOpenRouter -> OpenRouterRequest(p, template, opts)
      [] p.name = ProviderOllama -> OllamaRequest(p, template, opts)

Preflight(p, template) ==
    CASE p.name = ProviderOpenAI -> OpenAIPreflight(p, template)
      [] p.name = ProviderAnthropic -> AnthropicPreflight(p, template)
      [] p.name = ProviderOpenRouter -> OpenRouterPreflight(p, template)
      [] p.name = ProviderOllama -> OllamaPreflight(p, template)

Options(p, options) ==
    CASE p.name = ProviderOpenAI -> OpenAIOptions(options)
      [] p.name = ProviderAnthropic -> AnthropicOptions(options)
      [] p.name = ProviderOpenRouter -> OpenRouterOptions(options)
      [] p.name = ProviderOllama -> OllamaOptions(options)

(***************************************************************************)
(* One Invoke call as a value: the locals of its frame (template, opts,   *)
(* ctx, the requests it posted, the response, the outcome) and the events *)
(* that reached it.  The provider is the one instance every caller holds; *)
(* each part of Invoke below is a function of the provider and the frame  *)
(* as it finds them and yields both as it leaves them.                    *)
(***************************************************************************)
\* The merged options of no call.
NoOptions == [model |-> "none"]

MaxCalls == 2

CallIds == 1..MaxCalls

IdleCall ==
    [pc |-> "ready", template |-> <<>>, opts |-> NoOptions, ctxDone |-> FALSE,
     sent |-> <<>>, response |-> NoResponse, target |-> ZeroWeatherInfo,
     retMessage |-> NilMessage, retErr |-> NilError, events |-> <<>>]

\* The provider and a caller's frame after a part of Invoke has run.
Step(p, c) == [provider |-> p, call |-> c]

\* return message, err: the frame holds the results; the provider is not
\* touched.
ReturnedCall(p, c, outcome) ==
    Step(p, [c EXCEPT !.pc = "returned", !.retMessage = outcome.message,
                      !.retErr = outcome.err, !.target = outcome.target])

\* A createRequest that hands the request the client's header object
\* instead of a header of its own, so that WithJSON's Header.Set writes the
\* Content-Type into the headers every caller's requests start from.
PostedCallSharingHeaders(p, c) ==
    Step([p EXCEPT !.client.headers =
             [scheme |-> @.scheme, token |-> @.token, contentType |-> "application/json"]],
         [c EXCEPT !.pc = "inflight", !.sent = Append(@, Request(p, c.template, c.opts))])

\* o.client.Post(path, request) in the closure: createRequest builds a new
\* http.Request with a header of its own and adds the client's default
\* headers to it, WithJSON sets Content-Type and body on that request, Do
\* sends it.  The request is built from the frame's template and opts; the
\* client's base URL and default headers are read and nothing of the
\* provider is written.
PostedCall(p, c) ==
    Step(p, [c EXCEPT !.pc = "inflight", !.sent = Append(@, Request(p, c.template, c.opts))])

\* Invoke up to the first attempt: opts, the checks and the retrier's
\* decision live in the frame; the provider's options and retrier are read.
EnteredCall(p, t, options, done) ==
    LET c == [IdleCall EXCEPT !.template = t, !.opts = Options(p, options),
                              !.ctxDone = done]
    IN IF Preflight(p, t) # NilError
       THEN ReturnedCall(p, c, Outcome(NilMessage, Preflight(p, t), c.target))
       ELSE IF p.retrier # NilRetrier /\ RetryFirstAttempt(p.retrier, done) # "attempt"
       THEN ReturnedCall(p, c, Outcome(NilMessage,
                                       HTTPError(p, IF RetryFirstAttempt(p.retrier, done)
                                                       = "canceled"
                                                    THEN ErrContextCanceled
                                                    ELSE ErrMaxAttempts),
                                       c.target))
       ELSE PostedCall(p, c)

\* The attempt in flight came back with an error; attemptsMade is the
\* retrier's count of the attempts of this execution.  Where another
\* attempt is due the retrier first sleeps its delay.
FailedCall(p, c, attemptsMade) ==
    IF p.retrier = NilRetrier
    THEN ReturnedCall(p, c, Outcome(NilMessage, HTTPError(p, ErrTransport), c.target))
    ELSE LET next == RetryAfterFailure(p.retrier, attemptsMade, c.ctxDone)
         IN IF next = "attempt"
            THEN Step(p, [c EXCEPT !.pc = "waiting"])
            ELSE ReturnedCall(p, c, Outcome(NilMessage,
                                            HTTPError(p, IF next = "canceled"
                                                         THEN ErrContextCanceled
                                                         ELSE ErrTransport),
                                            c.target))

\* The retrier's delay is over, or the context ended it.
DelayedCall(p, c) ==
    IF RetryBeforeAttempt(c.ctxDone) = "canceled"
    THEN ReturnedCall(p, c, Outcome(NilMessage, HTTPError(p, ErrContextCanceled), c.target))
    ELSE PostedCall(p, c)

\* The attempt in flight came back with a response: resp, result and the
\* message are locals, the target is the caller's.
RespondedCall(p, c, resp) ==
    ReturnedCall(p, [c EXCEPT !.response = resp], Result(p, resp, c.opts, c.target))

\* The caller cancels the context it passed.
CanceledCall(p, c) == Step(p, [c EXCEPT !.ctxDone = TRUE])

\* RetryWithResult counts the attempts of the execution it runs.
AttemptsMade(cs, id) == Len(cs[id].sent)

(***************************************************************************)
(* The state machine.                                                     *)
(***************************************************************************)
VARIABLES
    provider,    \* the constructed provider: name, options, client, retrier
    pc,          \* "ready", "inflight" (an attempt is on the wire), "waiting"
                 \* (the retrier's delay between two attempts), "returned"
    ctxDone,     \* the context passed to the running call is canceled
    canceledInFlight, \* it was canceled while an attempt was on the wire
    template,    \* the template passed to the running call
    opts,        \* the merged invoke options of the running call
    sent,        \* the requests put on the wire by the running call, in order
    inflight,    \* the attempts (indices of sent) not yet come back
    response,    \* the response of the attempt that succeeded
    target,      \* the caller's structured-output target
    retMessage,  \* the message Invoke returned
    retErr,      \* the error Invoke returned
    call,        \* the library call (factory, message, template) just made
    calls        \* the Invoke calls goroutines run on the provider at the same time

vars == <<provider, pc, ctxDone, canceledInFlight, template, opts, sent, inflight, response, target,
          retMessage, retErr, call, calls>>

\* The messages callers build templates from.
TemplateMessages ==
    {FromSystem("Be brief."), FromUser("Weather?"), FromUser("")}

Templates == SeqsUpTo(TemplateMessages, MaxTmplLen)

NoCall == [op |-> "none"]

Init ==
    /\ provider \in {NewProvider(t, k, n).provider :
                        t \in ProviderTypes, k \in APIKeys, n \in MaxAttemptsSettings}
    /\ call = NoCall
    /\ calls = [id \in CallIds |-> IdleCall]
    /\ pc = "ready"
    /\ ctxDone = FALSE
    /\ canceledInFlight = FALSE
    /\ template = <<>>
    /\ opts = NoOptions
    /\ sent = <<>>
    /\ inflight = {}
    /\ response = NoResponse
    /\ target = ZeroWeatherInfo
    /\ retMessage = NilMessage
    /\ retErr = NilError

\* Invoke returns (message, err); the target is what the call left in it.
Returns(outcome) ==
    /\ pc' = "returned"
    /\ inflight' = {}
    /\ retMessage' = outcome.message
    /\ retErr' = outcome.err
    /\ target' = outcome.target

\* client.Post: the request goes on the wire and the caller blocks until
\* Do returns.
Post(request) ==
    /\ pc' = "inflight"
    /\ sent' = Append(sent, request)
    /\ inflight' = inflight \cup {Len(sent) + 1}
    /\ UNCHANGED <<retMessage, retErr, target>>

\* The retrier sleeps its fixed delay before the next attempt: the failed
\* attempt has come back and nothing is on the wire.
Waits ==
    /\ pc' = "waiting"
    /\ inflight' = inflight \ {Len(sent)}
    /\ UNCHANGED <<sent, retMessage, retErr, target>>

\* The call is entered with template t, option list options and a context
\* that is already canceled or not; preflight is the provider's verdict.
Enter(t, o, done, preflight) ==
    /\ pc = "ready"
    /\ template' = t
    /\ opts' = o
    /\ ctxDone' = done
    /\ canceledInFlight' = FALSE
    /\ response' = NoResponse
    /\ UNCHANGED <<provider, calls, call>>
    /\ IF preflight # NilError
       THEN Returns(Outcome(NilMessage, preflight, target)) /\ UNCHANGED sent
       ELSE IF provider.retrier # NilRetrier
                  /\ RetryFirstAttempt(provider.retrier, done) # "attempt"
       THEN Returns(Outcome(NilMessage,
                            HTTPError(provider,
                                      IF RetryFirstAttempt(provider.retrier, done) = "canceled"
                                      THEN ErrContextCanceled ELSE ErrMaxAttempts),
                            target))
            /\ UNCHANGED sent
       ELSE Post(Request(provider, t, o))

OpenAIInvoke ==
    /\ provider.name = ProviderOpenAI
    /\ \E t \in Templates, options \in InvokeOptionLists, done \in BOOLEAN :
          Enter(t, OpenAIOptions(options), done, OpenAIPreflight(provider, t))

AnthropicInvoke ==
    /\ provider.name = ProviderAnthropic
    /\ \E t \in Templates, options \in InvokeOptionLists, done \in BOOLEAN :
          Enter(t, AnthropicOptions(options), done, AnthropicPreflight(provider, t))

OpenRouterInvoke ==
    /\ provider.name = ProviderOpenRouter
    /\ \E t \in Templates, options \in InvokeOptionLists, done \in BOOLEAN :
          Enter(t, OpenRouterOptions(options), done, OpenRouterPreflight(provider, t))

OllamaInvoke ==
    /\ provider.name = ProviderOllama
    /\ \E t \in Templates, options \in InvokeOptionLists, done \in BOOLEAN :
          Enter(t, OllamaOptions(options), done, OllamaPreflight(provider, t))

\* The attempt in flight comes back with an error (connection refused, the
\* client's timeout, an unreadable body).  Without a retrier Invoke returns
\* it; with one, the retrier gives up or starts the delay that precedes the
\* next attempt.
TransportFails ==
    /\ pc = "inflight"
    /\ UNCHANGED <<provider, calls, ctxDone, canceledInFlight, template, opts, response, call>>
    /\ IF provider.retrier = NilRetrier
       THEN Returns(Outcome(NilMessage, HTTPError(provider, ErrTransport), target))
            /\ UNCHANGED sent
       ELSE LET next == RetryAfterFailure(provider.retrier, Len(sent), ctxDone)
            IN IF next = "attempt"
               THEN Waits
               ELSE Returns(Outcome(NilMessage,
                                    HTTPError(provider,
                                              IF next = "canceled" THEN ErrContextCanceled
                                              ELSE ErrTransport),
                                    target))
                    /\ UNCHANGED sent

\* A retrier that starts the next attempt on a timer of its own, while the
\* attempt before it is still on the wire.
RetryDelayElapsesWithoutWaiting ==
    /\ pc \in {"waiting", "inflight"}
    /\ provider.retrier # NilRetrier
    /\ Len(sent) < provider.retrier.maxAttempts
    /\ UNCHANGED <<provider, calls, ctxDone, canceledInFlight, template, opts, response, call>>
    /\ IF RetryBeforeAttempt(ctxDone) = "canceled"
       THEN Returns(Outcome(NilMessage, HTTPError(provider, ErrContextCanceled), target))
            /\ UNCHANGED sent
       ELSE Post(Request(provider, template, opts))

\* The retrier's delay is over, or the context ended it: a context that is
\* done ends the call with the context's error, otherwise the closure runs
\* again and posts the request anew.
RetryDelayElapses ==
    /\ pc = "waiting"
    /\ UNCHANGED <<provider, calls, ctxDone, canceledInFlight, template, opts, response, call>>
    /\ IF RetryBeforeAttempt(ctxDone) = "canceled"
       THEN Returns(Outcome(NilMessage, HTTPError(provider, ErrContextCanceled), target))
            /\ UNCHANGED sent
       ELSE Post(Request(provider, template, opts))

\* An Invoke that treats a structured-output parse failure like a failed
\* attempt and posts the request again while the budget lasts.
TransportRespondsRetryingParse ==
    /\ pc = "inflight"
    /\ \E resp \in Responses :
          LET outcome == Result(provider, resp, opts, target)
          IN /\ response' = resp
             /\ IF /\ IsMessageError(outcome.err)
                   /\ outcome.err.Operation = "json_unmarshal"
                   /\ Len(sent) < provider.options.maxAttempts
                THEN /\ pc' = "inflight"
                     /\ sent' = Append(sent, Request(provider, template, opts))
                     /\ inflight' = {Len(sent) + 1}
                     /\ UNCHANGED <<retMessage, retErr, target>>
                ELSE Returns(outcome) /\ UNCHANGED sent
    /\ UNCHANGED <<provider, calls, ctxDone, canceledInFlight, template, opts, call>>

\* The attempt in flight comes back with an HTTP response, whatever its
\* status: the exchange is over and Invoke runs to its return.
TransportResponds ==
    /\ pc = "inflight"
    /\ \E resp \in Responses :
          /\ response' = resp
          /\ Returns(Result(provider, resp, opts, target))
    /\ UNCHANGED <<provider, calls, ctxDone, canceledInFlight, template, opts, sent, call>>

\* The caller cancels the context (or its deadline passes) while the call
\* is blocked on the network or in the retrier's delay.  The request was
\* built without the context, so an attempt in flight stays in flight.
CancelCtx ==
    /\ pc \in {"inflight", "waiting"}
    /\ ~ctxDone
    /\ ctxDone' = TRUE
    /\ canceledInFlight' = (pc = "inflight")
    /\ UNCHANGED <<provider, calls, pc, template, opts, sent, inflight, response, target,
                   retMessage, retErr, call>>

\* The caller has taken the result; the provider is ready for the next call.
Done ==
    /\ pc = "returned"
    /\ pc' = "ready"
    /\ ctxDone' = FALSE
    /\ canceledInFlight' = FALSE
    /\ template' = <<>>
    /\ opts' = NoOptions
    /\ sent' = <<>>
    /\ inflight' = {}
    /\ response' = NoResponse
    /\ target' = ZeroWeatherInfo
    /\ retMessage' = NilMessage
    /\ retErr' = NilError
    /\ UNCHANGED <<provider, calls, call>>

Next ==
    \/ OpenAIInvoke
    \/ AnthropicInvoke
    \/ OpenRouterInvoke
    \/ OllamaInvoke
    \/ TransportFails
    \/ RetryDelayElapses
    \/ TransportResponds
    \/ CancelCtx
    \/ Done

Spec == Init /\ [][Next]_vars

(***************************************************************************)
(* The library outside Invoke: the factory, message and template          *)
(* validation, variable substitution.  These are functions of their       *)
(* arguments; a second specification calls them on arguments drawn from   *)
(* bounded sets and keeps the call and what it returned in the variable   *)
(* call.  No provider is serving a call meanwhile.                        *)
(***************************************************************************)
\* The type tags the factory is called with: the four constants, and
\* strings that are none of them.
ProviderTags == ProviderTypes \cup {"unsupported-tag", "", "OpenAI"}

LibInit ==
    /\ provider = NilProvider
    /\ call = NoCall
    /\ calls = [id \in CallIds |-> IdleCall]
    /\ pc = "ready"
    /\ ctxDone = FALSE
    /\ canceledInFlight = FALSE
    /\ template = <<>>
    /\ opts = NoOptions
    /\ sent = <<>>
    /\ inflight = {}
    /\ response = NoResponse
    /\ target = ZeroWeatherInfo
    /\ retMessage = NilMessage
    /\ retErr = NilError

\* A library call leaves the pipeline's state alone.
Calls(c) ==
    /\ call' = c
    /\ UNCHANGED <<provider, calls, pc, ctxDone, canceledInFlight, template, opts, sent, inflight,
                   response, target, retMessage, retErr>>

\* llm.NewProvider(providerType, WithAPIKey(k), WithMaxAttempts(n))
CallNewProvider ==
    /\ call = NoCall
    /\ \E providerType \in ProviderTags, k \in APIKeys, n \in MaxAttemptsSettings :
           Calls([op |-> "NewProvider", providerType |-> providerType,
                  ret |-> NewProvider(providerType, k, n)])

\* The messages Validate is called on: those the constructors build, with
\* and without content, and message values with other roles.
ValidateInputs ==
    {[made |-> "FromSystem", m |-> FromSystem(c)] : c \in {"", "You are a helpful assistant."}}
    \cup {[made |-> "FromUser", m |-> FromUser(c)] : c \in {"", "Hello."}}
    \cup {[made |-> "FromAssistant", m |-> FromAssistant(c, u)] :
             c \in {"", "Hello."}, u \in Usages}
    \cup {[made |-> "message{}", m |-> [Role |-> r, Content |-> c, Usage |-> ZeroUsage]] :
             r \in {"", "tool", "User"}, c \in {"", "Hello."}}

\* m.Validate()
CallValidate ==
    /\ call = NoCall
    /\ \E in \in ValidateInputs :
           Calls([op |-> "Validate", made |-> in.made, m |-> in.m, ret |-> Validate(in.m)])

\* The templates Validate is called on.
ValidateTemplates ==
    SeqsUpTo({FromSystem("You are a helpful assistant."), FromUser("Hello."), FromUser(""),
              [Role |-> "tool", Content |-> "Hello.", Usage |-> ZeroUsage]}, MaxTmplLen)

\* t.Validate()
CallTemplateValidate ==
    /\ call = NoCall
    /\ \E t \in ValidateTemplates :
           Calls([op |-> "TemplateValidate", t |-> t, ret |-> TemplateValidate(t)])

\* The keys, values and mappings Invoke is called with.
Keys == {"country", "city"}

Values ==
    {[kind |-> "string", s |-> "France", n |-> 0],
     [kind |-> "string", s |-> "{{city}}", n |-> 0],
     [kind |-> "int", s |-> "", n |-> 42]}

VarMappings ==
    {NilVars} \cup {[isNil |-> FALSE, entries |-> f] :
                       f \in UNION {[K -> Values] : K \in SUBSET Keys}}

InvokeContents ==
    {"What is the capital of {{country}}?", "{{country}} and {{country}}",
     "{{city}}, {{country}}, {{name}}", "Hello.", ""}

InvokeMessages ==
    {FromSystem(c) : c \in InvokeContents}
    \cup {FromUser(c) : c \in InvokeContents}
    \cup {FromAssistant(c, WithUsage(10, 5, 15)) : c \in InvokeContents}

\* m.Invoke(v): what it returns and what the caller's m holds afterwards.
CallMessageInvoke ==
    /\ call = NoCall
    /\ \E m \in InvokeMessages, v \in VarMappings :
           \E order \in Orders(v) :
               LET invoked == MessageInvokeOnStore([caller |-> m], v, order)
               IN Calls([op |-> "MessageInvoke", m |-> m, v |-> v, order |-> order,
                         ret |-> MessageInvoke(m, v, order),
                         receiver |-> invoked.store.caller])

InvokeTemplates ==
    SeqsUpTo({FromSystem("You are a helpful assistant."),
              FromUser("What is the capital of {{country}}?"),
              FromAssistant("{{city}}, {{country}}", WithUsage(10, 5, 15))}, MaxTmplLen)

\* t.Invoke(v) for t := From(ms...): the messages of the template it returns
\* and the messages t holds afterwards.
CallTemplateInvoke ==
    /\ call = NoCall
    /\ \E t \in InvokeTemplates, v \in VarMappings :
           \E orders \in [1..Len(t) -> Orders(v)] :
               LET receiver == From(1)
                   invoked == TemplateInvokeOnHeap(<<t>>, receiver, v, orders)
               IN Calls([op |-> "TemplateInvoke", t |-> t, v |-> v, orders |-> orders,
                         ret |-> invoked.heap[GetMessage(invoked.ret)],
                         receiver |-> invoked.heap[GetMessage(receiver)]])

(***************************************************************************)
(* Serialization.  ToJSON is json.Marshal of the message struct, whose     *)
(* fields Role, Content and Usage are exported and carry no json tag, so   *)
(* each is written under its field name, the nested usage struct too.      *)
(* A Go string is a sequence of bytes, any bytes; json.Marshal reads it    *)
(* as UTF-8 and writes bytes.  Here such a string is a sequence of numbers *)
(* 0..255, and so is the JSON text.                                        *)
(***************************************************************************)
\* The characters 0x20 to 0x7E in the order of their codes, a space standing
\* where the grave accent 0x60 is, which no string of this module holds.
PrintableASCII ==
    " !\"#$%&'()*+,-./0123456789:;<=>?@ABCDEFGHIJKLMNOPQRSTUVWXYZ[\\]^_ abcdefghijklmnopqrstuvwxyz{|}~"

\* The byte of a character c of a string of this module.
Byte(c) ==
    IF c = "\t" THEN 9
    ELSE IF c = "\n" THEN 10
    ELSE IF c = "\f" THEN 12
    ELSE IF c = "\r" THEN 13
    ELSE 31 + (CHOOSE i \in 1..Len(PrintableASCII) :
                  /\ SubSeq(PrintableASCII, i, i) = c
                  /\ \A j \in 1..(i - 1) : SubSeq(PrintableASCII, j, j) # c)

\* []byte(str)
Bytes(str) == [i \in 1..Len(str) |-> Byte(SubSeq(str, i, i))]

\* What json.Marshal reads of a message: its fields as Go holds them.
GoMessage(m) == [Role |-> Bytes(m.Role), Content |-> Bytes(m.Content), Usage |-> m.Usage]

\* encoding/json writes backspace and form feed as \u0008 and \u000c up to
\* Go 1.21 and as \b and \f from Go 1.22 on.  The repository pins no
\* toolchain, so either is what a build may produce.
Toolchains == {"go1.21", "go1.22"}

\* hex[n], the digits being "0123456789abcdef".
HexDigit(n) == IF n < 10 THEN 48 + n ELSE 87 + n

\* The escape of a byte below 0x80: the bytes of htmlSafeSet are copied;
\* quote and backslash get a backslash; line feed, carriage return and tab
\* (and backspace and form feed on the newer toolchain) their two-character
\* escape; every other byte, that is the remaining control characters and
\* <, > and &, is written \u00XX.
EscapeByte(b, toolchain) ==
    IF b = 34 THEN Bytes("\\\"")
    ELSE IF b = 92 THEN Bytes("\\\\")
    ELSE IF b = 10 THEN Bytes("\\n")
    ELSE IF b = 13 THEN Bytes("\\r")
    ELSE IF b = 9 THEN Bytes("\\t")
    ELSE IF b = 8 /\ toolchain = "go1.22" THEN Bytes("\\b")
    ELSE IF b = 12 /\ toolchain = "go1.22" THEN Bytes("\\f")
    ELSE IF b < 32 \/ b \in {38, 60, 62}
         THEN Bytes("\\u00") \o <<HexDigit(b \div 16), HexDigit(b % 16)>>
    ELSE <<b>>

\* utf8.DecodeRuneInString at index i of s, for s[i] >= 0x80: the number of
\* bytes of the rune encoded there, 0 where the bytes are no valid encoding
\* (a stray continuation byte, an overlong form, a surrogate, a code point
\* above U+10FFFF, a truncated sequence).
RuneLen(s, i) ==
    LET b == s[i]
        size == IF b >= 194 /\ b <= 223 THEN 2
                ELSE IF b >= 224 /\ b <= 239 THEN 3
                ELSE IF b >= 240 /\ b <= 244 THEN 4
                ELSE 0
        lo == IF b = 224 THEN 160 ELSE IF b = 240 THEN 144 ELSE 128
        hi == IF b = 237 THEN 159 ELSE IF b = 244 THEN 143 ELSE 191
    IN IF size = 0 \/ i + size - 1 > Len(s) THEN 0
       ELSE IF s[i + 1] < lo \/ s[i + 1] > hi THEN 0
       ELSE IF \E k \in 2..(size - 1) : s[i + k] < 128 \/ s[i + k] > 191 THEN 0
       ELSE size

RECURSIVE EscapeFrom(_, _, _)
\* The loop of the string encoder from index i on: bytes below 0x80 by
\* EscapeByte; invalid UTF-8 one byte at a time as the escape of U+FFFD;
\* U+2028 and U+2029 as their \u escapes; every other rune copied.
EscapeFrom(s, i, toolchain) ==
    IF i > Len(s) THEN <<>>
    ELSE IF s[i] < 128
         THEN EscapeByte(s[i], toolchain) \o EscapeFrom(s, i + 1, toolchain)
    ELSE IF RuneLen(s, i) = 0
         THEN Bytes("\\ufffd") \o EscapeFrom(s, i + 1, toolchain)
    ELSE IF RuneLen(s, i) = 3 /\ s[i] = 226 /\ s[i + 1] = 128 /\ s[i + 2] \in {168, 169}
         THEN Bytes("\\u202") \o <<HexDigit(s[i + 2] % 16)>>
              \o EscapeFrom(s, i + 3, toolchain)
    ELSE SubSeq(s, i, i + RuneLen(s, i) - 1)
         \o EscapeFrom(s, i + RuneLen(s, i), toolchain)

\* encoding/json's encoding of a string value: the escaped text in quotes.
\* s is the Go string as its sequence of bytes (Bytes("text") for printable
\* text, any numbers in 0..255 otherwise) and the result is the bytes written.
JsonString(s, toolchain) == <<34>> \o EscapeFrom(s, 1, toolchain) \o <<34>>

\* json.Marshal of a usage value.
UsageToJSON(u) ==
    Bytes("{\"PromptTokens\":" \o ToString(u.PromptTokens)
          \o ",\"CompletionTokens\":" \o ToString(u.CompletionTokens)
          \o ",\"TotalTokens\":" \o ToString(u.TotalTokens) \o "}")

\* m.ToJSON()
MessageToJSON(m, toolchain) ==
    Bytes("{\"Role\":") \o JsonString(m.Role, toolchain)
    \o Bytes(",\"Content\":") \o JsonString(m.Content, toolchain)
    \o Bytes(",\"Usage\":") \o UsageToJSON(m.Usage) \o Bytes("}")

\* The elements of a JSON array, comma separated.
RECURSIVE JoinMessages(_, _)
JoinMessages(t, toolchain) ==
    IF Len(t) = 0 THEN <<>>
    ELSE IF Len(t) = 1 THEN MessageToJSON(t[1], toolchain)
    ELSE MessageToJSON(t[1], toolchain) \o Bytes(",") \o JoinMessages(Tail(t), toolchain)

\* t.ToJSON(): json.Marshal of the message slice, null for the nil slice.
TemplateToJSON(t, isNil, toolchain) ==
    IF isNil THEN Bytes("null") ELSE Bytes("[") \o JoinMessages(t, toolchain) \o Bytes("]")

\* The messages ToJSON is called on after substitution.
ToJSONMessages ==
    InvokeMessages \cup {FromUser("Say \"hi\" & <wait>."), FromUser("line1\nline2\tend"),
                          FromUser("page1\fpage2")}

\* Contents with bytes no string of this module holds: control characters
\* (NUL, backspace, form feed, escape, unit separator), the grave accent and DEL; the
\* two-byte e acute, U+2028, U+2029, U+FFFD and a four-byte rune; a stray
\* continuation byte, 0xFF, an overlong slash, a surrogate, code point
\* U+110000 and a rune cut short.
RawContents ==
    {Bytes("a") \o <<0, 8, 12, 27, 31, 96, 127>> \o Bytes("z"),
     <<195, 169, 226, 128, 168, 226, 128, 169, 239, 191, 189, 240, 159, 152, 128>>,
     Bytes("x") \o <<128, 255, 192, 175>> \o Bytes("y"),
     <<237, 160, 128, 244, 144, 128, 128>>,
     Bytes("cut") \o <<226, 128>>}

\* m.Invoke(v).ToJSON()
CallMessageToJSON ==
    /\ call = NoCall
    /\ \E toolchain \in Toolchains :
          \/ \E m \in ToJSONMessages, v \in VarMappings :
                 \E order \in Orders(v) :
                     Calls([op |-> "MessageToJSON", toolchain |-> toolchain,
                            invoked |-> GoMessage(MessageInvoke(m, v, order)),
                            ret |-> MessageToJSON(GoMessage(MessageInvoke(m, v, order)),
                                                  toolchain)])
          \/ \E raw \in RawContents :
                 LET m == [Role |-> Bytes(RoleUser), Content |-> raw, Usage |-> ZeroUsage]
                 IN Calls([op |-> "MessageToJSON", toolchain |-> toolchain,
                           invoked |-> m, ret |-> MessageToJSON(m, toolchain)])

\* From(ms...).Invoke(v).ToJSON(); From() holds the nil slice, which Invoke
\* with an empty mapping hands back.
CallTemplateToJSON ==
    /\ call = NoCall
    /\ \E t \in InvokeTemplates, v \in VarMappings, toolchain \in Toolchains :
           \E orders \in [1..Len(t) -> Orders(v)] :
               LET invoked == [i \in 1..Len(t) |-> GoMessage(TemplateInvoke(t, v, orders)[i])]
               IN Calls([op |-> "TemplateToJSON", toolchain |-> toolchain,
                         invoked |-> invoked,
                         ret |-> TemplateToJSON(invoked, Len(t) = 0 /\ MapLen(v) = 0,
                                                toolchain)])

\* The providers the factory builds.
ConstructedProviders ==
    {NewProvider(t, k, n).provider :
        t \in ProviderTypes, k \in APIKeys, n \in MaxAttemptsSettings}

\* p.SetOptions(q.GetOptions()): llmOptions is unexported, so the value a
\* caller outside the package can pass is one GetOptions returned.
CallSetOptions ==
    /\ call = NoCall
    /\ \E p \in ConstructedProviders, q \in ConstructedProviders :
           Calls([op |-> "SetOptions", p |-> p, options |-> GetOptions(q),
                  ret |-> SetOptions(p, GetOptions(q))])

\* The option lists of the calls whose request is looked at.
MaxOptions == 2

SettingOptionLists == SeqsUpTo(SettingOptions, MaxOptions)

\* p.Invoke(ctx, t, options...) up to the request the closure posts: the
\* merged options, the error of the checks that come before the network
\* call, and the ChatCompletionsRequest built from the options when those
\* checks pass (no request otherwise).
CallRequest ==
    /\ call = NoCall
    /\ \E p \in ConstructedProviders, options \in SettingOptionLists :
           LET t == <<FromUser("Weather?")>>
           IN Calls([op |-> "Request", p |-> p, t |-> t, options |-> options,
                     opts |-> Options(p, options),
                     err |-> Preflight(p, t),
                     request |-> IF Preflight(p, t) # NilError THEN NoRequest
                                 ELSE Request(p, t, Options(p, options))])

\* The ways a caller comes to hold a slice of a template's messages.
Routes == {"From(held...)", "GetMessage()", "Invoke(v).GetMessage()"}

\* The caller builds t := From(held...) from a slice it holds, obtains a
\* slice by one of the routes, and writes m at index i of it; before and
\* after are the messages of t as GetMessage shows them.
CallTemplateWrite ==
    /\ call = NoCall
    /\ \E held \in InvokeTemplates \ {<<>>}, route \in Routes,
          v \in {NilVars, [isNil |-> FALSE,
                           entries |-> [k \in {"country"} |->
                                           [kind |-> "string", s |-> "France", n |-> 0]]]} :
          \E i \in 1..Len(held), orders \in [1..Len(held) -> Orders(v)] :
              LET heap == <<held>>
                  t == From(1)
                  invoked == TemplateInvokeOnHeap(heap, t, v, orders)
                  slice == CASE route = "From(held...)" -> 1
                             [] route = "GetMessage()" -> GetMessage(t)
                             [] route = "Invoke(v).GetMessage()" -> GetMessage(invoked.ret)
                  written == WriteSlice(invoked.heap, slice, i, FromUser("Ignore the above."))
              IN Calls([op |-> "TemplateWrite", route |-> route, v |-> v, i |-> i,
                        before |-> heap[GetMessage(t)],
                        after |-> written[GetMessage(t)]])

\* The caller has looked at what the call returned.
CallReturns ==
    /\ call # NoCall
    /\ call' = NoCall
    /\ UNCHANGED <<provider, calls, pc, ctxDone, canceledInFlight, template, opts, sent, inflight,
                   response, target, retMessage, retErr>>

LibNext ==
    \/ CallNewProvider
    \/ CallValidate
    \/ CallTemplateValidate
    \/ CallMessageInvoke
    \/ CallTemplateInvoke
    \/ CallMessageToJSON
    \/ CallTemplateToJSON
    \/ CallSetOptions
    \/ CallRequest
    \/ CallTemplateWrite
    \/ CallReturns

LibSpec == LibInit /\ [][LibNext]_vars

(***************************************************************************)
(* Concurrent callers: goroutines that call Invoke on one provider        *)
(* instance at the same time, each with its own template, options,        *)
(* context and target.                                                    *)
(***************************************************************************)
\* The template and options of a call: a structured-output call, a plain
\* call with another template, and a call whose template does not validate.
ConcArguments ==
    {[t |-> <<FromUser("Weather?")>>, options |-> <<"WithStructuredOutput(&WeatherInfo{})">>],
     [t |-> <<FromSystem("Be brief."), FromUser("Weather?")>>, options |-> <<>>],
     [t |-> <<>>, options |-> <<>>]}

ConcResponses ==
    {[status |-> 200, body |-> [kind |-> "json", choices |-> <<ContentWeather>>,
                                usage |-> WithUsage(10, 5, 15)]],
     [status |-> 500, body |-> [kind |-> "garbage", choices |-> <<>>, usage |-> ZeroUsage]]}

\* WithMaxAttempts of the shared provider: no retry, one retry.
ConcMaxAttempts == {1, 2}

ConcInit ==
    /\ provider \in {NewProvider(t, "sk-key", n).provider :
                        t \in ProviderTypes, n \in ConcMaxAttempts}
    /\ calls = [id \in CallIds |-> IdleCall]
    /\ call = NoCall
    /\ pc = "ready"
    /\ ctxDone = FALSE
    /\ canceledInFlight = FALSE
    /\ template = <<>>
    /\ opts = NoOptions
    /\ sent = <<>>
    /\ inflight = {}
    /\ response = NoResponse
    /\ target = ZeroWeatherInfo
    /\ retMessage = NilMessage
    /\ retErr = NilError

\* A step of goroutine id: step is what the part of Invoke it ran left of
\* the provider and of its frame, and e is what happened.
Goroutine(id, step, e) ==
    /\ provider' = step.provider
    /\ calls' = [calls EXCEPT
                    ![id] = [step.call EXCEPT !.events = Append(calls[id].events, e)]]
    /\ UNCHANGED <<pc, ctxDone, canceledInFlight, template, opts, sent, inflight,
                   response, target, retMessage, retErr, call>>

\* go provider.Invoke(ctx, t, options...) with a context that is live or
\* already canceled when the call starts.
ConcInvoke ==
    \E id \in CallIds :
        /\ calls[id].pc = "ready"
        /\ \E a \in ConcArguments, done \in BOOLEAN :
              Goroutine(id, EnteredCall(provider, a.t, a.options, done),
                        [kind |-> "invoke", t |-> a.t, options |-> a.options, done |-> done])

ConcTransportFails ==
    \E id \in CallIds :
        /\ calls[id].pc = "inflight"
        /\ Goroutine(id, FailedCall(provider, calls[id], AttemptsMade(calls, id)),
                     [kind |-> "fail"])

ConcTransportResponds ==
    \E id \in CallIds :
        /\ calls[id].pc = "inflight"
        /\ \E resp \in ConcResponses :
              Goroutine(id, RespondedCall(provider, calls[id], resp),
                        [kind |-> "respond", resp |-> resp])

ConcRetryDelayElapses ==
    \E id \in CallIds :
        /\ calls[id].pc = "waiting"
        /\ Goroutine(id, DelayedCall(provider, calls[id]), [kind |-> "retry"])

ConcCancelCtx ==
    \E id \in CallIds :
        /\ calls[id].pc \in {"inflight", "waiting"}
        /\ ~calls[id].ctxDone
        /\ Goroutine(id, CanceledCall(provider, calls[id]), [kind |-> "cancel"])

ConcNext ==
    \/ ConcInvoke
    \/ ConcTransportFails
    \/ ConcRetryDelayElapses
    \/ ConcTransportResponds
    \/ ConcCancelCtx

ConcSpec == ConcInit /\ [][ConcNext]_vars

(***************************************************************************)
(* Properties.                                                            *)
(***************************************************************************)
CloudProviders == {ProviderOpenAI, ProviderAnthropic, ProviderOpenRouter}

OperationTags ==
    {"template_validation", "http_request", "response_decode", "no_choices",
     "json_unmarshal"}

\* The running or finished call passed a template that validates, and the
\* provider has an API key if it is a cloud provider.
ValidCall ==
    /\ pc # "ready"
    /\ TemplateValidate(template) = NilError
    /\ provider.name \in CloudProviders => provider.options.apiKey # ""

\* err is the context's error, bare or wrapped once.
IsCancellation(err) ==
    \/ err = ErrContextCanceled
    \/ /\ err.type \in {"MessageError", "errors.withStack"}
       /\ err.Cause = ErrContextCanceled

\* C1: a provider built with maxAttempts = N whose transport fails on every
\* attempt (valid template, API key where required, context never canceled)
\* has made exactly N attempts when Invoke returns, and returns a
\* MessageError http_request wrapping the transport error.
C1_RetryBudget ==
    (pc = "returned" /\ ValidCall /\ ~ctxDone /\ response = NoResponse)
        => /\ Len(sent) = provider.options.maxAttempts
           /\ IsMessageError(retErr)
           /\ retErr.Operation = "http_request"
           /\ retErr.Cause = ErrTransport

\* C2: for every provider, a call entered with a context that is already
\* canceled returns at once with a cancellation error and sends nothing.
C2_CanceledBeforeFirstAttempt ==
    [][(pc = "ready" /\ pc' # "ready" /\ ctxDone' /\ ValidCall')
          => (pc' = "returned" /\ sent' = <<>> /\ IsCancellation(retErr'))]_vars

\* C3: once the context is canceled with an attempt on the wire, the call
\* returns an error and no message: never the result of an attempt that
\* came back after the cancellation.
C3_CancelAbortsAttempt ==
    (pc = "returned" /\ canceledInFlight)
        => /\ retMessage = NilMessage
           /\ retErr # NilError

\* C4: at most one attempt is in flight, it is the latest one started (every
\* earlier attempt came back before the next was posted), and none is in
\* flight once an attempt has brought a response.
C4_AttemptsSequential ==
    /\ Cardinality(inflight) <= 1
    /\ inflight \subseteq {Len(sent)}
    /\ response # NoResponse => inflight = {}

\* The second attempt of a call is on the wire, the first having failed.
C4_Witness == Len(sent) = 2 /\ inflight = {2} /\ pc = "inflight"

\* C5: for each provider, a call whose template fails Validate returns a
\* MessageError template_validation whose cause is the validation error, and
\* sends nothing.
C5_InvalidTemplateRejected ==
    (pc # "ready" /\ TemplateValidate(template) # NilError)
        => /\ pc = "returned"
           /\ sent = <<>>
           /\ IsMessageError(retErr)
           /\ retErr.Operation = "template_validation"
           /\ retErr.Cause = TemplateValidate(template)

\* C6: for each cloud provider, a call with a valid template on a provider
\* built with an empty API key returns a ValidationError for api_key and
\* sends nothing; Ollama never returns that error.
C6_MissingAPIKeyRejected ==
    /\ (pc # "ready" /\ TemplateValidate(template) = NilError
           /\ provider.name \in CloudProviders /\ provider.options.apiKey = "")
          => /\ pc = "returned"
             /\ sent = <<>>
             /\ IsValidationError(retErr)
             /\ retErr.Field = "api_key"
    /\ (pc = "returned" /\ provider.name = ProviderOllama)
          => ~(IsValidationError(retErr) /\ retErr.Field = "api_key")

\* C7: every error Invoke returns once the template has validated is a
\* MessageError with an operation tag of the fixed vocabulary.
C7_ErrorsAreTagged ==
    (pc = "returned" /\ retErr # NilError /\ TemplateValidate(template) = NilError)
        => /\ IsMessageError(retErr)
           /\ retErr.Operation \in OperationTags

\* The stage of the response at which Invoke must fail, "ok" for none.
FirstFailingStage ==
    IF response.body.kind \in {"empty", "garbage"} THEN "response_decode"
    ELSE IF Len(response.body.choices) = 0 THEN "no_choices"
    ELSE IF opts.structuredOutput = "WeatherInfo" /\ response.body.choices[1] # ContentWeather
         THEN "json_unmarshal"
    ELSE "ok"

\* C8: after a successful exchange the error's tag names the first failing
\* stage (decode, then choices, then structured output into a target whose
\* schema was derived), no_choices has no
\* cause, and there is no error when no stage fails.
C8_FirstFailingStage ==
    (pc = "returned" /\ response # NoResponse)
        => IF FirstFailingStage = "ok" THEN retErr = NilError
           ELSE /\ IsMessageError(retErr)
                /\ retErr.Operation = FirstFailingStage
                /\ FirstFailingStage = "no_choices" => retErr.Cause = NilError

\* C9: a successful Invoke returns an assistant message whose content is
\* that of the first choice and whose usage is the response's usage.
C9_SuccessMessage ==
    (pc = "returned" /\ retErr = NilError)
        => /\ response.body.kind = "json"
           /\ Len(response.body.choices) >= 1
           /\ retMessage = [Role |-> RoleAssistant,
                            Content |-> response.body.choices[1],
                            Usage |-> response.body.usage]

\* A call succeeded on a response with two different choices and non-zero usage.
C9_Witness ==
    /\ pc = "returned"
    /\ retErr = NilError
    /\ Len(response.body.choices) = 2
    /\ response.body.choices[1] # response.body.choices[2]
    /\ response.body.usage = WithUsage(10, 5, 15)

\* C10: for every provider, a call with WithStructuredOutput(&WeatherInfo{}) whose
\* response has a first choice that is JSON of the target's shape returns no
\* error, sent a json_schema response format with strict set, and leaves the
\* JSON's values in the target.
C10_StructuredOutput ==
    (pc = "returned" /\ opts.structuredOutput = "WeatherInfo" /\ response.body.kind = "json"
        /\ Len(response.body.choices) >= 1
        /\ response.body.choices[1] = ContentWeather)
        => /\ retErr = NilError
           /\ \A i \in 1..Len(sent) :
                 /\ sent[i].ResponseFormat # NilResponseFormat
                 /\ sent[i].ResponseFormat.Type = "json_schema"
                 /\ sent[i].ResponseFormat.JsonSchema.Strict
           /\ target = [Temperature |-> "21.5", Condition |-> "clear"]

\* C11: a structured-output target whose schema derivation failed is never
\* passed over in silence: no call returns without an error having sent its
\* requests without a response format and left the target untouched while
\* the target is set and the derived schema is null.
C11_SchemaFailureSurfaced ==
    ~(/\ pc = "returned"
      /\ opts.structuredOutput # "nil"
      /\ opts.jsonSchema = NilSchema
      /\ retErr = NilError
      /\ sent # <<>>
      /\ \A i \in 1..Len(sent) : sent[i].ResponseFormat = NilResponseFormat
      /\ target = ZeroWeatherInfo)

\* C12: a call that returns a response_decode error (valid call, context
\* never canceled) has used up its attempt budget: the undecodable response
\* was retried like a transport failure.
C12_DecodeFailureRetried ==
    (pc = "returned" /\ ValidCall /\ ~ctxDone
        /\ IsMessageError(retErr) /\ retErr.Operation = "response_decode")
        => Len(sent) = provider.options.maxAttempts

\* C13: once an attempt has brought a response, the call sends nothing
\* more: in the step the response arrives and in every step that keeps it,
\* the requests sent stay what they were, whatever stage fails afterwards
\* and whatever is left of the attempt budget.
C13_ParseFailureNotRetried ==
    [][response' # NoResponse => sent' = sent]_vars

\* A call returned json_unmarshal after one request with budget left.
C13_Witness ==
    /\ pc = "returned"
    /\ IsMessageError(retErr)
    /\ retErr.Operation = "json_unmarshal"
    /\ Len(sent) = 1
    /\ provider.options.maxAttempts = 2

\* C14: NewProvider returns a nil provider and the error "unsupported
\* provider type: <tag>" for every tag that is none of the four, and for
\* each of the four a nil error and a provider whose GetName() is the tag;
\* GetSupportedProviders lists exactly the tags NewProvider accepts.
C14_Factory ==
    call.op = "NewProvider" =>
        /\ call.providerType \notin {"openai", "anthropic", "openrouter", "ollama"}
              => /\ call.ret.provider = NilProvider
                 /\ call.ret.err # NilError
                 /\ call.ret.err.Message
                       = "unsupported provider type: " \o call.providerType
        /\ call.providerType \in {"openai", "anthropic", "openrouter", "ollama"}
              => /\ call.ret.err = NilError
                 /\ call.ret.provider # NilProvider
                 /\ GetName(call.ret.provider) = call.providerType
        /\ call.ret.err = NilError
              <=> \E i \in 1..Len(GetSupportedProviders) :
                      GetSupportedProviders[i] = call.providerType

\* The factory was called with an unsupported tag and refused it.
C14_Witness ==
    /\ call.op = "NewProvider"
    /\ call.providerType = "unsupported-tag"
    /\ call.ret.provider = NilProvider
    /\ call.ret.err = ErrUnsupportedProvider("unsupported-tag")

\* C15: Validate succeeds exactly when the role is one of system, user,
\* assistant and the content is not empty; a message a constructor built
\* validates when its content is not empty and fails with an error (returned,
\* not raised) when it is empty.
C15_ValidateIff ==
    call.op = "Validate" =>
        /\ call.ret = NilError
              <=> (call.m.Role \in {"system", "user", "assistant"} /\ call.m.Content # "")
        /\ (call.made # "message{}" /\ call.m.Content # "") => call.ret = NilError
        /\ (call.made # "message{}" /\ call.m.Content = "") => IsValidationError(call.ret)

\* A message built by a constructor with empty content was refused.
C15_Witness ==
    /\ call.op = "Validate"
    /\ call.made = "FromUser"
    /\ call.m.Content = ""
    /\ call.ret # NilError

\* C16 as stated: empty content always gives a ValidationError on content,
\* a role outside the set always one on role, also when both hold.
C16_FieldOfEachCondition ==
    call.op = "Validate" =>
        /\ call.m.Content = ""
              => (IsValidationError(call.ret) /\ call.ret.Field = "content")
        /\ call.m.Role \notin {"system", "user", "assistant"}
              => (IsValidationError(call.ret) /\ call.ret.Field = "role")

\* C16, amended: the error names the first check that fails, in the order
\* empty role, empty content, role outside the set.  An empty role gives a
\* ValidationError on role; empty content with a role that is not empty gives
\* one on content; a role outside the set with content gives one on role.
C16_FieldOfFirstFailure ==
    call.op = "Validate" =>
        /\ call.m.Role = ""
              => (IsValidationError(call.ret) /\ call.ret.Field = "role")
        /\ (call.m.Role # "" /\ call.m.Content = "")
              => (IsValidationError(call.ret) /\ call.ret.Field = "content")
        /\ (call.m.Role \notin {"system", "user", "assistant"} /\ call.m.Content # "")
              => (IsValidationError(call.ret) /\ call.ret.Field = "role")

\* Validate was called on a message with an unknown role and no content.
C16_Witness ==
    /\ call.op = "Validate"
    /\ call.m.Role = "tool"
    /\ call.m.Content = ""
    /\ call.ret.Field = "content"

\* C17: Template.Validate fails with the ValidationError "template cannot be
\* empty" on a template without messages; on any other template it succeeds
\* exactly when every message validates, and otherwise fails with a
\* TemplateError naming message[i], i the smallest index of a message that
\* does not validate, with that message's error as cause.
C17_TemplateValidate ==
    call.op = "TemplateValidate" =>
        /\ Len(call.t) = 0
              => /\ IsValidationError(call.ret)
                 /\ call.ret.Message = "template cannot be empty"
        /\ Len(call.t) > 0
              => /\ call.ret = NilError
                       <=> \A i \in 1..Len(call.t) : Validate(call.t[i]) = NilError
                 /\ call.ret # NilError
                       => /\ call.ret.type = "TemplateError"
                          /\ \E i \in 1..Len(call.t) :
                                /\ Validate(call.t[i]) # NilError
                                /\ \A j \in 1..(i - 1) : Validate(call.t[j]) = NilError
                                /\ call.ret.Variable = MessageRef(i - 1)
                                /\ call.ret.Cause = Validate(call.t[i])

\* Validate was called on a template whose two messages both fail, for
\* different reasons.
C17_Witness ==
    /\ call.op = "TemplateValidate"
    /\ Len(call.t) = 2
    /\ Validate(call.t[1]) # NilError
    /\ Validate(call.t[2]) # NilError
    /\ Validate(call.t[1]) # Validate(call.t[2])
    /\ call.ret.Variable = "message[0]"

\* C18: Message.Invoke and Template.Invoke with a nil or empty mapping
\* return a value with the roles, contents, usage and message order of the
\* input.
C18_EmptyMappingIsNoOp ==
    /\ (call.op = "MessageInvoke" /\ MapLen(call.v) = 0)
          => /\ call.ret.Role = call.m.Role
             /\ call.ret.Content = call.m.Content
             /\ call.ret.Usage = call.m.Usage
    /\ (call.op = "TemplateInvoke" /\ MapLen(call.v) = 0)
          => /\ Len(call.ret) = Len(call.t)
             /\ \A i \in 1..Len(call.t) :
                   /\ call.ret[i].Role = call.t[i].Role
                   /\ call.ret[i].Content = call.t[i].Content
                   /\ call.ret[i].Usage = call.t[i].Usage

\* Invoke was called with a nil mapping on an assistant message that has
\* usage and a placeholder.
C18_Witness ==
    /\ call.op = "MessageInvoke"
    /\ call.v = NilVars
    /\ call.m = FromAssistant("{{city}}, {{country}}, {{name}}", WithUsage(10, 5, 15))

RECURSIVE SubstituteAtOnce(_, _)
\* The content with every placeholder of a key of entries that occurs in it
\* replaced by the string form of the key's value, in one pass from the
\* left, and everything else kept.
SubstituteAtOnce(content, entries) ==
    LET hits == {k \in DOMAIN entries :
                    /\ Len(Placeholder(k)) <= Len(content)
                    /\ SubSeq(content, 1, Len(Placeholder(k))) = Placeholder(k)}
        hit == CHOOSE k \in hits : TRUE
    IN IF content = "" THEN ""
       ELSE IF hits # {}
       THEN FormatValue(entries[hit])
            \o SubstituteAtOnce(SubSeq(content, Len(Placeholder(hit)) + 1, Len(content)),
                                entries)
       ELSE SubSeq(content, 1, 1)
            \o SubstituteAtOnce(SubSeq(content, 2, Len(content)), entries)

\* C19: the content Message.Invoke(vars) returns is the input's content with
\* every occurrence of {{k}}, k a key of vars, replaced by the string form
\* of vars[k]; other placeholders stay verbatim and keys that do not occur
\* in the content change nothing.
C19_SubstitutionCorrect ==
    call.op = "MessageInvoke" =>
        /\ call.ret.Content = SubstituteAtOnce(call.m.Content, call.v.entries)
        /\ \A k \in DOMAIN call.v.entries :
              ReplaceAll(call.m.Content, Placeholder(k), "") = call.m.Content
                  => call.ret.Content
                        = SubstituteAtOnce(call.m.Content,
                                           [j \in DOMAIN call.v.entries \ {k} |->
                                               call.v.entries[j]])

\* C20: substitution never writes its receiver: after m.Invoke(vars) the
\* caller's message has the role, content and usage it had, and after
\* t.Invoke(vars) the template holds the message sequence it held, for any
\* vars.
C20_ReceiverUnchanged ==
    /\ call.op = "MessageInvoke"
          => /\ call.receiver.Role = call.m.Role
             /\ call.receiver.Content = call.m.Content
             /\ call.receiver.Usage = call.m.Usage
    /\ call.op = "TemplateInvoke" => call.receiver = call.t

\* Invoke returned a template whose second message differs from the one the
\* receiver holds: a substitution took place.
C20_Witness ==
    /\ call.op = "TemplateInvoke"
    /\ Len(call.t) = 2
    /\ call.ret[2].Content # call.t[2].Content
    /\ call.receiver[2].Content # call.ret[2].Content

\* The serialization the tests expect of a message: keys role and content,
\* and a usage entry only when usage is not zero.
TaggedMessageJSON(m, toolchain) ==
    Bytes("{\"role\":") \o JsonString(m.Role, toolchain)
    \o Bytes(",\"content\":") \o JsonString(m.Content, toolchain)
    \o (IF m.Usage = ZeroUsage THEN <<>> ELSE Bytes(",\"usage\":") \o UsageToJSON(m.Usage))
    \o Bytes("}")

\* C21: a template of a system message S and a user message U, both
\* non-empty, serializes after substitution to
\* [{"role":"system","content":S},{"role":"user","content":U}], with
\* lower-case keys, in template order and without a usage entry for zero
\* usage; a single message serializes to {"role":<role>,"content":<content>}.
C21_ToJSON ==
    /\ (/\ call.op = "TemplateToJSON"
        /\ Len(call.invoked) = 2
        /\ call.invoked[1].Role = Bytes(RoleSystem) /\ call.invoked[1].Content # <<>>
        /\ call.invoked[2].Role = Bytes(RoleUser) /\ call.invoked[2].Content # <<>>
        /\ call.invoked[1].Usage = ZeroUsage /\ call.invoked[2].Usage = ZeroUsage)
       => call.ret = Bytes("[") \o TaggedMessageJSON(call.invoked[1], call.toolchain)
                     \o Bytes(",") \o TaggedMessageJSON(call.invoked[2], call.toolchain)
                     \o Bytes("]")
    /\ (call.op = "MessageToJSON" /\ call.invoked.Usage = ZeroUsage)
       => call.ret = TaggedMessageJSON(call.invoked, call.toolchain)

\* C22: the messages of every request Invoke has sent are as many as the
\* template's, and the i-th carries the role and content of the template's
\* i-th message: none dropped, duplicated or reordered.
C22_WireOrder ==
    \A n \in 1..Len(sent) :
        /\ Len(sent[n].Messages) = Len(template)
        /\ \A i \in 1..Len(template) :
              /\ sent[n].Messages[i].Role = template[i].Role
              /\ sent[n].Messages[i].Content = template[i].Content

\* A request has gone out for a template of two different messages.
C22_Witness ==
    /\ Len(sent) >= 1
    /\ Len(template) = 2
    /\ template[1] # template[2]
    /\ sent[1].Messages[1].Role = RoleSystem
    /\ sent[1].Messages[2].Role = RoleUser

\* The provider and the frame a caller ends up with when it is the only
\* caller of a provider p of its own and the events es reach it.
RECURSIVE Alone(_, _)
Alone(p, es) ==
    IF es = <<>> THEN Step(p, IdleCall)
    ELSE LET before == Alone(p, SubSeq(es, 1, Len(es) - 1))
             e == es[Len(es)]
         IN CASE e.kind = "invoke" -> EnteredCall(before.provider, e.t, e.options, e.done)
              [] e.kind = "fail" -> FailedCall(before.provider, before.call,
                                               Len(before.call.sent))
              [] e.kind = "retry" -> DelayedCall(before.provider, before.call)
              [] e.kind = "respond" -> RespondedCall(before.provider, before.call, e.resp)
              [] e.kind = "cancel" -> CanceledCall(before.provider, before.call)

\* The provider as its constructor built it from the options it holds.
AsBuilt(p) == NewProvider(p.name, p.options.apiKey, p.options.maxAttempts).provider

\* C23: concurrent Invoke calls on one provider are independent: no step of
\* any call writes the provider the callers share, and under every
\* interleaving each call's requests, attempts, target and returned message
\* or error are those of the same call made alone, on a provider of its own
\* built the same way, with its own template, options, context and
\* responses.
C23_ConcurrentCallsIndependent ==
    /\ [][provider' = provider]_vars
    /\ [](\A id \in CallIds :
             [calls[id] EXCEPT !.events = <<>>]
                 = Alone(AsBuilt(provider), calls[id].events).call)

\* Two calls with different templates are on the wire together, one of
\* them on its second attempt.
C23_Witness ==
    /\ calls[1].pc = "inflight"
    /\ calls[2].pc = "inflight"
    /\ Len(calls[1].sent) = 2
    /\ Len(calls[2].sent) = 1
    /\ calls[1].template # calls[2].template

\* The options of p are those its HTTP client and retrier were built from.
BuiltFromOptions(p) ==
    /\ p.client.baseURL = p.options.baseURL
    /\ p.client.headers \in {NoAuthorization, Bearer(p.options.apiKey)}
    /\ p.retrier \in {NilRetrier, NewRetrier(p.options.maxAttempts)}

\* C24: a provider's options are immutable once it is constructed: no
\* operation reachable on a constructed provider changes them, so the
\* options Invoke checks are those the HTTP client and the retrier were
\* built from.
C24_OptionsImmutable ==
    call.op = "SetOptions" =>
        /\ GetOptions(call.ret) = GetOptions(call.p)
        /\ BuiltFromOptions(call.ret)

\* The setting in effect: the value of the last option of that kind in the
\* list, the provider default when there is none.
RECURSIVE Effective(_, _, _)
Effective(options, values, default) ==
    IF options = <<>> THEN default
    ELSE IF options[Len(options)] \in DOMAIN values
    THEN values[options[Len(options)]]
    ELSE Effective(SubSeq(options, 1, Len(options) - 1), values, default)

ModelOptions == [n \in {"WithModel(\"gpt-4o\")", "WithModel(\"o3\")"} |->
                    IF n = "WithModel(\"o3\")" THEN "o3" ELSE "gpt-4o"]

TemperatureOptions == [n \in {"WithTemperature(0.2)", "WithTemperature(1.5)"} |->
                          IF n = "WithTemperature(0.2)" THEN "0.2" ELSE "1.5"]

MaxTokensOptions == [n \in {"WithMaxTokens(50)"} |-> 50]

DefaultModel(p) ==
    CASE p.name = ProviderOpenAI -> "gpt-4o-mini"
      [] p.name = ProviderAnthropic -> "claude-3-5-sonnet-20240620"
      [] p.name = ProviderOpenRouter -> "gpt-4o-mini"
      [] p.name = ProviderOllama -> "llama3.1:8b"

\* C25: the per-call settings in effect (the caller's value where an option
\* was given, the last one where several were, the provider default
\* otherwise) are what is sent: the request carries the effective model,
\* temperature and max-token limit.
C25_EffectiveSettingsSent ==
    (call.op = "Request" /\ call.request # NoRequest) =>
        /\ call.request.Model = Effective(call.options, ModelOptions, DefaultModel(call.p))
        /\ "Temperature" \in DOMAIN call.request
        /\ call.request.Temperature = Effective(call.options, TemperatureOptions, "0.7")
        /\ "MaxTokens" \in DOMAIN call.request
        /\ call.request.MaxTokens = Effective(call.options, MaxTokensOptions, 1000)

\* C26: a template is immutable after construction: whatever slice the
\* caller writes to (the one it passed to From, the one GetMessage returned,
\* the one of the template Invoke returned), the messages seen through the
\* template stay what they were.
C26_TemplateImmutable ==
    call.op = "TemplateWrite" => call.after = call.before

\* C27: Message.Invoke is deterministic: for a given content and a given
\* mapping the content it returns is the same whatever order the keys are
\* processed in, also when a value contains the placeholder of another key;
\* so is Template.Invoke, message by message.
C27_InvokeDeterministic ==
    /\ call.op = "MessageInvoke" =>
          \A order \in Orders(call.v) :
              MessageInvoke(call.m, call.v, order).Content = call.ret.Content
    /\ call.op = "TemplateInvoke" =>
          \A orders \in [1..Len(call.t) -> Orders(call.v)] :
              TemplateInvoke(call.t, call.v, orders) = call.ret

\* C28: Invoke never returns a successful assistant message for an exchange
\* whose response status is not 2xx: such a response always ends in a
\* non-nil error.
C28_ErrorStatusIsError ==
    (pc = "returned" /\ response # NoResponse /\ ~IsSuccess(response))
        => (retErr # NilError /\ retMessage = NilMessage)

\* C29: within one Invoke call the number of transport attempts never
\* exceeds maxAttempts (stated for the budgets that are not negative, which
\* no count can stay within), and no attempt is made after one has
\* succeeded: once a response has come back nothing is in flight, the call
\* has returned, and the message it returned is decoded from that response.
C29_AttemptsBounded ==
    /\ (pc # "ready" /\ provider.options.maxAttempts >= 0)
          => Len(sent) <= provider.options.maxAttempts
    /\ response # NoResponse =>
          /\ pc = "returned"
          /\ inflight = {}
          /\ retErr = NilError => retMessage = AssistantMessage(Decode(response))

\* C30: every Invoke call that returns yields exactly one of a non-nil
\* message and a non-nil error: the message is nil on every error path and
\* the error is nil on the success path.
C30_MessageXorError ==
    pc = "returned" => ((retMessage = NilMessage) # (retErr = NilError))

\* The call returned an error found after a successful exchange: the
\* content did not parse into the structured-output target.
C30_Witness ==
    /\ pc = "returned"
    /\ IsMessageError(retErr)
    /\ retErr.Operation = "json_unmarshal"
    /\ retMessage = NilMessage
    /\ Len(sent) = 1

====
